---- MODULE Spec2Model ----
(***************************************************************************)
(* Model of scripts/save_summary_compact.py: the archival run that parses  *)
(* the summarization engine's reply, persists one record file per          *)
(* resolution candidate and merges the reply's index document into the     *)
(* persisted index.json.                                                   *)
(*                                                                         *)
(* JSON values are encoded as records [k, s, l]: k is the JSON type as the *)
(* code tests it ("absent" = key missing from the enclosing object,        *)
(* "null", "str", "list", "other" = any type the code does not expect),    *)
(* s the string and l the list.  An "id" value is a string, or NoStr when  *)
(* the JSON value is missing or is not a string.                           *)
(***************************************************************************)
EXTENDS Integers, Sequences, FiniteSets, TLC

VARIABLES files,      \* resolutions directory: file name -> record content
          indexFile,  \* context/index.json: [k |-> "none" | "corrupt" | "json", doc]
          dirs,       \* directories created so far
          debugFiles, \* number of debug files written into context/debug
          run,        \* per process: position and locals of main / parse_model_output_to_context
          nRuns,      \* runs started so far
          serial,     \* records written so far (labels the bodies of the next reply's lines)
          h           \* history of the run(s), read only by the properties

vars == <<files, indexFile, dirs, debugFiles, run, nRuns, serial, h>>

(* ------------------------------ bounds --------------------------------- *)
MaxRuns == 2
MaxRecords == 3

(* --------------------------- JSON encoding ----------------------------- *)
NoStr == "<none>"
AbsentV == [k |-> "absent", s |-> "", l |-> <<>>]
NullV == [k |-> "null", s |-> "", l |-> <<>>]
OtherV == [k |-> "other", s |-> "", l |-> <<>>]
Str(x) == [k |-> "str", s |-> x, l |-> <<>>]
List(q) == [k |-> "list", s |-> "", l |-> q]

\* dict.get(key, default)
Get(v, default) == IF v.k = "absent" THEN default ELSE v
\* dict.setdefault(key, default)
SetDefault(v, default) == IF v.k = "absent" THEN default ELSE v

(* ----------------------------- strings --------------------------------- *)
StartsWith(s, p) == Len(s) >= Len(p) /\ SubSeq(s, 1, Len(p)) = p
EndsWith(s, p) == Len(s) >= Len(p) /\ SubSeq(s, Len(s) - Len(p) + 1, Len(s)) = p

Digit(d) ==
  CASE d = 0 -> "0" [] d = 1 -> "1" [] d = 2 -> "2" [] d = 3 -> "3" [] d = 4 -> "4"
    [] d = 5 -> "5" [] d = 6 -> "6" [] d = 7 -> "7" [] d = 8 -> "8" [] d = 9 -> "9"

RECURSIVE Dec(_)
Dec(n) == IF n < 10 THEN Digit(n) ELSE Dec(n \div 10) \o Digit(n % 10)

RECURSIVE ZeroPad(_, _)
ZeroPad(s, w) == IF Len(s) >= w THEN s ELSE ZeroPad("0" \o s, w)

\* f"res-{n:03d}"
ResId(n) == "res-" \o ZeroPad(Dec(n), 3)

\* os.path.join(res_dir, f"{rid}.json"), relative to res_dir
FileName(rid) == rid \o ".json"

(* ------------------------- index documents ----------------------------- *)
\* An index document: k = "dict" for a JSON object, "other" for any other JSON
\* value.  environment and detail_index are objects (k = "dict"), missing
\* (k = "absent") or of another type (k = "other").
NoEnv(kind) == [k |-> kind, os |-> AbsentV, runtime |-> AbsentV, tools |-> AbsentV, paths |-> AbsentV]
NoDetail(kind) == [k |-> kind, resolutions |-> AbsentV]

EmptyDoc(kind) ==
  [k |-> kind, context_version |-> AbsentV, project |-> AbsentV, current_state |-> AbsentV,
   goals |-> AbsentV, constraints |-> AbsentV, environment |-> NoEnv("absent"),
   verified_facts |-> AbsentV, next_actions |-> AbsentV, detail_index |-> NoDetail("absent")]

\* A directory entry of detail_index.resolutions; id = NoStr for an entry that is
\* no object or has no string id.  tag stands for its descriptive fields.
Entry(id, tag) == [id |-> id, tag |-> tag]
IsIdEntry(it) == it.id # NoStr

normalize_index(obj) ==
  LET o0 == IF obj.k = "dict" THEN obj ELSE EmptyDoc("dict")
  IN  [o0 EXCEPT
         !.context_version = SetDefault(@, Str("v2")),
         !.project = SetDefault(@, Str("unknown")),
         !.current_state = SetDefault(@, Str("")),
         !.goals = SetDefault(@, List(<<>>)),
         !.constraints = SetDefault(@, List(<<>>)),
         !.environment = IF @.k = "absent"
                           THEN [k |-> "dict", os |-> NullV, runtime |-> NullV,
                                 tools |-> List(<<>>), paths |-> List(<<>>)]
                           ELSE @,
         !.verified_facts = SetDefault(@, List(<<>>)),
         !.next_actions = SetDefault(@, List(<<>>)),
         !.detail_index = [k |-> "dict",
                           resolutions |-> IF @.k = "dict" /\ @.resolutions.k = "list"
                                             THEN @.resolutions ELSE List(<<>>)]]

\* json.dumps(item, ensure_ascii=False, sort_keys=True) of a string item: the
\* string in quotes
DumpKey(item) == "\"" \o item \o "\""

RECURSIVE DedupAppend(_, _, _)
\* the inner loop of unique_list_merge: append the items of arr not yet seen
DedupAppend(out, seen, arr) ==
  IF arr = <<>> THEN [out |-> out, seen |-> seen]
  ELSE LET key == DumpKey(Head(arr))
       IN  IF key \in seen THEN DedupAppend(out, seen, Tail(arr))
           ELSE DedupAppend(Append(out, Head(arr)), seen \cup {key}, Tail(arr))

\* unique_list_merge without the seen set: nothing is deduplicated
UniqueListMergeNoSeen(a, b) ==
  List((IF a.k = "list" THEN a.l ELSE <<>>) \o (IF b.k = "list" THEN b.l ELSE <<>>))

\* unique_list_merge that reads b only: the previous items are lost
UniqueListMergeDropsOld(a, b) ==
  LET rb == IF b.k = "list" THEN DedupAppend(<<>>, {}, b.l) ELSE [out |-> <<>>, seen |-> {}]
  IN  List(rb.out)

unique_list_merge(a, b) ==
  LET ra == IF a.k = "list" THEN DedupAppend(<<>>, {}, a.l) ELSE [out |-> <<>>, seen |-> {}]
      rb == IF b.k = "list" THEN DedupAppend(ra.out, ra.seen, b.l) ELSE ra
  IN  List(rb.out)

RECURSIVE MergeItemsLoop(_, _, _)
\* one loop of merge_resolution_index_items
MergeItemsLoop(out, seen, items) ==
  IF items = <<>> THEN [out |-> out, seen |-> seen]
  ELSE LET it == Head(items)
       IN  IF IsIdEntry(it) /\ it.id \notin seen
             THEN MergeItemsLoop(Append(out, it), seen \cup {it.id}, Tail(items))
             ELSE MergeItemsLoop(out, seen, Tail(items))

merge_resolution_index_items(existing_items, incoming_items) ==
  LET r1 == MergeItemsLoop(<<>>, {}, existing_items)
  IN  MergeItemsLoop(r1.out, r1.seen, incoming_items).out

(* --------------------------- id allocation ----------------------------- *)
\* the ids of the record files listed in res_dir
ExistingIds(names) ==
  {SubSeq(name, 1, Len(name) - 5) : name \in {x \in names : StartsWith(x, "res-") /\ EndsWith(x, ".json")}}

RECURSIVE AllocFrom(_, _, _)
AllocFrom(existing, reserved, n) ==
  IF ResId(n) \notin existing /\ ResId(n) \notin reserved THEN ResId(n)
  ELSE AllocFrom(existing, reserved, n + 1)

\* allocate_next_res_id without the directory listing
AllocateIgnoresDisk(names, reserved) == AllocFrom({}, reserved, 1)

\* allocate_next_res_id that starts its scan after the number of record files
AllocateFromCount(names, reserved) ==
  AllocFrom(ExistingIds(names), reserved, Cardinality(ExistingIds(names)) + 1)

\* allocate_next_res_id that numbers by the count of record files, without a scan
AllocateByCount(names, reserved) == ResId(Cardinality(ExistingIds(names)) + 1)

allocate_next_res_id(names, reserved) == AllocFrom(ExistingIds(names), reserved, 1)

(* ------------------------- the reply's framing -------------------------- *)
\* The reply text is a sequence of tokens: the markers "IDX" (===FILE:index.json===),
\* "RES" (===FILE:resolutions.ndjson===) and "END" (===END_FILE===), "doc" (the
\* text of the index document), "nd" (the lines of the resolution stream) and
\* "txt" (any other non-blank text).
\* FILE_BLOCK_RE.search: leftmost IDX, then the shortest index group that is
\* followed by END, RES, the shortest ndjson group and END.
BlockMatches(t) ==
  {m \in [i : 1..Len(t), j : 1..Len(t), l : 1..Len(t)] :
     /\ t[m.i] = "IDX" /\ m.j > m.i /\ t[m.j] = "END"
     /\ m.j + 1 <= Len(t) /\ t[m.j + 1] = "RES"
     /\ m.l > m.j + 1 /\ t[m.l] = "END"}

\* FILE_BLOCK_RE without the closing marker of the resolution block
FileBlockSearchNoClosing(t) ==
  LET ms == {m \in [i : 1..Len(t), j : 1..Len(t)] :
               /\ t[m.i] = "IDX" /\ m.j > m.i /\ t[m.j] = "END"
               /\ m.j + 1 <= Len(t) /\ t[m.j + 1] = "RES"}
  IN  IF ms = {} THEN [found |-> FALSE, index |-> <<>>, ndjson |-> <<>>]
      ELSE LET m == CHOOSE x \in ms : \A y \in ms : x.i < y.i \/ (x.i = y.i /\ x.j <= y.j)
           IN  [found |-> TRUE, index |-> SubSeq(t, m.i + 1, m.j - 1),
                ndjson |-> SelectSeq(SubSeq(t, m.j + 2, Len(t)), LAMBDA x : x # "END")]

FileBlockSearch(t) ==
  LET ms == BlockMatches(t)
  IN  IF ms = {} THEN [found |-> FALSE, index |-> <<>>, ndjson |-> <<>>]
      ELSE LET m == CHOOSE x \in ms : \A y \in ms :
                      \/ x.i < y.i
                      \/ (x.i = y.i /\ x.j < y.j)
                      \/ (x.i = y.i /\ x.j = y.j /\ x.l <= y.l)
           IN  [found |-> TRUE, index |-> SubSeq(t, m.i + 1, m.j - 1),
                ndjson |-> SubSeq(t, m.j + 2, m.l - 1)]

\* a line of the stream: ok = json.loads succeeds and yields an object
Line(id, body) == [ok |-> TRUE, id |-> id, body |-> body]
BadLine == [ok |-> FALSE, id |-> NoStr, body |-> ""]

RECURSIVE SplitLines(_, _)
\* ndjson_text.splitlines(): the reply's lines where the group holds them, one
\* undecodable line for any other token
SplitLines(group, lines) ==
  IF group = <<>> THEN <<>>
  ELSE (IF Head(group) = "nd" THEN lines ELSE <<BadLine>>) \o SplitLines(Tail(group), lines)

(* ------------------------- remap and index merge ------------------------ *)
InMap(m, x) == x \in DOMAIN m

\* step 3 without the loop that corrects the ids
RemapNothing(items, id_remap) == items

\* step 3: the id of every directory entry that is a key of id_remap is replaced
RemapItems(items, id_remap) ==
  [n \in 1..Len(items) |->
     IF IsIdEntry(items[n]) /\ InMap(id_remap, items[n].id)
       THEN [items[n] EXCEPT !.id = id_remap[items[n].id]]
       ELSE items[n]]

\* the minimal entries with the list created anew for every written id
MinimalEntriesLastOnly(written_ids) == <<Entry(written_ids[Len(written_ids)], "")>>

MinimalEntries(written_ids) == [n \in 1..Len(written_ids) |-> Entry(written_ids[n], "")]

\* step 3 of parse_model_output_to_context, on the normalized incoming index
RemapIncoming(incoming, id_remap, written_ids) ==
  LET items == RemapItems(incoming.detail_index.resolutions.l, id_remap)
  IN  IF items = <<>> /\ written_ids # <<>>
        THEN [incoming EXCEPT !.detail_index.resolutions = List(MinimalEntries(written_ids))]
        ELSE [incoming EXCEPT !.detail_index.resolutions = List(items)]

NoIndex == EmptyDoc("none")

MergeEnvironment(old, new) ==
  LET env_old == IF old.k = "dict" THEN old ELSE NoEnv("dict")
      env_new == IF new.k = "dict" THEN new ELSE NoEnv("dict")
  IN  [k |-> "dict",
       os |-> Get(env_new.os, Get(env_old.os, NullV)),
       runtime |-> Get(env_new.runtime, Get(env_old.runtime, NullV)),
       tools |-> unique_list_merge(Get(env_old.tools, List(<<>>)), Get(env_new.tools, List(<<>>))),
       paths |-> unique_list_merge(Get(env_old.paths, List(<<>>)), Get(env_new.paths, List(<<>>)))]

\* step 4 of parse_model_output_to_context; existing_index = NoIndex is None
FinalIndex(existing_index, incoming_index) ==
  IF existing_index.k = "none" THEN incoming_index
  ELSE LET merged == existing_index
       IN  [merged EXCEPT
              !.project = Get(incoming_index.project, merged.project),
              !.current_state = Get(incoming_index.current_state, merged.current_state),
              !.next_actions = Get(incoming_index.next_actions, merged.next_actions),
              !.goals = unique_list_merge(Get(merged.goals, List(<<>>)), Get(incoming_index.goals, List(<<>>))),
              !.constraints = unique_list_merge(Get(merged.constraints, List(<<>>)), Get(incoming_index.constraints, List(<<>>))),
              !.verified_facts = unique_list_merge(Get(merged.verified_facts, List(<<>>)), Get(incoming_index.verified_facts, List(<<>>))),
              !.environment = MergeEnvironment(merged.environment, incoming_index.environment),
              !.detail_index.resolutions = List(merge_resolution_index_items(
                                                  merged.detail_index.resolutions.l,
                                                  incoming_index.detail_index.resolutions.l))]

\* index.json as the next run reads it (step 1): None when the file is missing or
\* does not decode
NoFile == [k |-> "none", doc |-> EmptyDoc("other")]
CorruptFile == [k |-> "corrupt", doc |-> EmptyDoc("other")]
JsonFile(doc) == [k |-> "json", doc |-> doc]

\* step 1 without the read: the run merges into nothing
LoadIndexIgnoresFile(file) == NoIndex

LoadIndex(file) == IF file.k = "json" THEN normalize_index(file.doc) ELSE NoIndex

(* ------------------------------ replies -------------------------------- *)
Body(n) == "b" \o Dec(n)
Tok(prefix, v) == prefix \o Dec(v)

\* a complete index document whose values carry the version v
BaseDoc(v) ==
  [k |-> "dict", context_version |-> Str("v2"), project |-> Str(Tok("p", v)),
   current_state |-> Str(Tok("s", v)), goals |-> List(<<Tok("g", v)>>),
   constraints |-> List(<<Tok("c", v)>>),
   environment |-> [k |-> "dict", os |-> Str(Tok("os", v)), runtime |-> Str(Tok("rt", v)),
                    tools |-> List(<<Tok("t", v)>>), paths |-> List(<<Tok("d", v)>>)],
   verified_facts |-> List(<<Tok("f", v)>>), next_actions |-> List(<<Tok("a", v)>>),
   detail_index |-> [k |-> "dict", resolutions |-> List(<<>>)]]

\* BaseDoc(v) and the documents that differ from it in one field: the field
\* omitted, of an unexpected type, null, or a list with a repeated item
FieldDocs(v) ==
  LET b == BaseDoc(v)
  IN  {b, EmptyDoc("dict"), EmptyDoc("other"),
       [b EXCEPT !.context_version = AbsentV],
       [b EXCEPT !.project = AbsentV], [b EXCEPT !.project = NullV],
       [b EXCEPT !.current_state = AbsentV],
       [b EXCEPT !.next_actions = AbsentV], [b EXCEPT !.next_actions = List(<<>>)],
       [b EXCEPT !.goals = AbsentV], [b EXCEPT !.goals = OtherV],
       [b EXCEPT !.goals = List(<<Tok("g", v), Tok("g", v)>>)],
       [b EXCEPT !.constraints = AbsentV],
       [b EXCEPT !.constraints = List(<<Tok("c", v), Tok("c", v)>>)],
       [b EXCEPT !.verified_facts = AbsentV],
       [b EXCEPT !.verified_facts = List(<<Tok("f", v), Tok("f", v)>>)],
       [b EXCEPT !.environment = NoEnv("absent")], [b EXCEPT !.environment = NoEnv("other")],
       [b EXCEPT !.environment.os = AbsentV], [b EXCEPT !.environment.os = NullV],
       [b EXCEPT !.environment.runtime = AbsentV],
       [b EXCEPT !.environment.tools = AbsentV],
       [b EXCEPT !.environment.tools = List(<<Tok("t", v), Tok("t", v)>>)],
       [b EXCEPT !.environment.paths = AbsentV], [b EXCEPT !.environment.paths = OtherV]}

\* ids a resolution line declares and passes the id check with: of the shape
\* res-NNN, and with the prefix only
NumberedIds == {ResId(1), ResId(2)}
OddId == "res-x"
\* "id" values the id check rejects: no string, and a string without the prefix
InvalidIds == {NoStr, "r-001"}

\* the lines of a reply, labelled from the serial number n: up to max lines with
\* valid ids, or fewer followed by one fatal line (what follows a fatal line is
\* never read)
LineSeqs(n, max) ==
  LET ids(m) == [1..m -> NumberedIds] \cup {[x \in 1..m |-> OddId]}
      good == UNION {ids(m) : m \in 0..max}
      short == UNION {ids(m) : m \in 0..(max - 1)}
      lines(q) == [x \in 1..Len(q) |-> Line(q[x], Body(n + x))]
  IN  {lines(q) : q \in good}
        \cup {Append(lines(q), BadLine) : q \in short}
        \cup {Append(lines(q), Line(bad, Body(n + Len(q) + 1))) : q \in short, bad \in InvalidIds}

AllValid(lines) == \A x \in 1..Len(lines) : lines[x].ok /\ lines[x].id \notin InvalidIds

\* the directory entries the reply's index document gives for its lines: one per
\* line with the declared id (the form the instruction template asks for), and
\* the deviations from it
Directories(lines) ==
  LET match == [x \in 1..Len(lines) |-> Entry(lines[x].id, lines[x].body)]
      dict(v) == [k |-> "dict", resolutions |-> v]
  IN  IF ~AllValid(lines) THEN {dict(List(<<>>))}
      ELSE {NoDetail("absent"), dict(OtherV), dict(List(match)),
            dict(List(Append(match, Entry(ResId(9), "ghost")))),
            dict(List(<<Entry(NoStr, "junk")>> \o match)),
            dict(List(match \o match)),
            dict(List(SubSeq(match, 1, IF match = <<>> THEN 0 ELSE 1))),
            dict(List(<<>>))}

GoodFrame == <<"IDX", "doc", "END", "RES", "nd", "END">>
\* framings that are well formed, and framings that lack a marker, have text
\* between the blocks, have the blocks in the wrong order or a broken document
Frames ==
  {GoodFrame,
   <<"txt", "IDX", "doc", "END", "RES", "nd", "END", "txt">>,
   <<"IDX", "doc", "END", "RES", "END">>,
   <<"IDX", "doc", "END", "RES", "nd">>,
   <<"IDX", "doc", "RES", "nd", "END">>,
   <<"IDX", "doc", "END", "txt", "RES", "nd", "END">>,
   <<"RES", "nd", "END", "IDX", "doc", "END">>,
   <<"IDX", "doc", "END">>,
   <<"IDX", "txt", "END", "RES", "nd", "END">>,
   <<"IDX", "doc", "END", "IDX", "doc", "END", "RES", "nd", "END">>,
   <<"txt">>}

\* the reply's directory is one entry per line, with the line's declared id
ListsItsLines(r) ==
  /\ r.doc.k = "dict" /\ r.doc.detail_index.k = "dict"
  /\ r.doc.detail_index.resolutions =
       List([x \in 1..Len(r.lines) |-> Entry(r.lines[x].id, r.lines[x].body)])

\* the shape res-NNN: the prefix and three decimal digits
Digits == {"0", "1", "2", "3", "4", "5", "6", "7", "8", "9"}
IsResNNN(id) ==
  /\ Len(id) = 7 /\ StartsWith(id, "res-")
  /\ \A x \in 5..7 : SubSeq(id, x, x) \in Digits

Regular(r) == ListsItsLines(r) /\ \A x \in 1..Len(r.lines) : IsResNNN(r.lines[x].id)

Reply(frame, doc, lines) == [out_text |-> frame, doc |-> doc, lines |-> lines]

\* replies that vary the resolution stream and the directory entries
ResolutionReplies(n) ==
  UNION {{Reply(GoodFrame, [BaseDoc(1) EXCEPT !.detail_index = d], ls) : d \in Directories(ls)} :
               ls \in LineSeqs(n, MaxRecords - n)}
  \cup {Reply(f, BaseDoc(1), <<Line(ResId(1), Body(n + 1))>>) : f \in Frames}

\* replies that vary the fields of the index document; some carry one
\* resolution line with its directory entry
FieldReplies(n) ==
  LET docs == FieldDocs(1) \cup FieldDocs(2)
      line == Line(ResId(1), Body(n + 1))
      listed(d) == IF d.k = "dict" /\ d.detail_index.k = "dict"
                     THEN [d EXCEPT !.detail_index.resolutions = List(<<Entry(line.id, line.body)>>)]
                     ELSE d
  IN  {Reply(GoodFrame, d, <<>>) : d \in docs}
        \cup {Reply(GoodFrame, listed(d), <<line>>) :
                d \in {x \in {BaseDoc(1), BaseDoc(2), EmptyDoc("dict")} : n < MaxRecords}}

(* --------------------------- the session digest ------------------------- *)
\* build_session_material: the number of entries kept per channel, the cap of
\* an output block and of a tool_use description, the budget of the blob
SummaryBound == 80
ChannelBound == 120
OutputCap == 20000
DescCap == 600
MaxChars == 60000
\* how far the transcripts exceed a channel's bound
Extra == 3

Min(a, b) == IF a <= b THEN a ELSE b

\* An event of the transcript, as far as build_session_material reads it: its
\* type ("summary" with a string summary, "assistant", "user", or "none" for any
\* other), the number of tool_use and of non-empty tool_result items in its
\* message content, whether the content has a text item, its toolUseResult
\* ("none", "stats" when its content has no text, "text" when it has), and the
\* length of each of its texts.
Event(type, uses, results, text, tur, size) ==
  [type |-> type, uses |-> uses, results |-> results, text |-> text, tur |-> tur, size |-> size]

\* an entry of a channel: the n-th entry that event number ev contributes to it
Item(ev, n, len) == [ev |-> ev, n |-> n, len |-> len]

\* len("- tool_use: Bash (t1) "), len of a toolUseResult statistics line, and
\* len(role + ": ")
UsePrefixLen == 22
StatsLen == 76
RoleLen(type) == IF type = "user" THEN 6 ELSE 11

\* extract_text_from_message_obj: the text items and the contents of the
\* tool_result items, joined by newlines
TextLen(e) ==
  LET parts == (IF e.text THEN 1 ELSE 0) + e.results
  IN  IF parts = 0 THEN 0 ELSE parts * e.size + (parts - 1)

NoChannels ==
  [summaries |-> <<>>, dialogue |-> <<>>, tool_uses |-> <<>>, tool_results |-> <<>>, tool_stats |-> <<>>]

\* what one pass of the loop over the events appends to the five channels
EventItems(e, x) ==
  IF e.type = "summary" THEN [NoChannels EXCEPT !.summaries = <<Item(x, 1, e.size)>>]
  ELSE [summaries |-> <<>>,
        tool_uses |-> IF e.type = "assistant"
                        THEN [n \in 1..e.uses |-> Item(x, n, UsePrefixLen + Min(e.size, DescCap))]
                        ELSE <<>>,
        tool_results |-> (IF e.type = "user" THEN [n \in 1..e.results |-> Item(x, n, e.size)] ELSE <<>>)
                           \o (IF e.tur = "text" THEN <<Item(x, e.results + 1, e.size)>> ELSE <<>>),
        tool_stats |-> IF e.tur # "none" THEN <<Item(x, 1, StatsLen)>> ELSE <<>>,
        dialogue |-> IF e.type \in {"user", "assistant"} /\ TextLen(e) > 0
                       THEN <<Item(x, 1, RoleLen(e.type) + TextLen(e))>> ELSE <<>>]

RECURSIVE Extract(_, _, _)
\* the loop over the events number lo to hi: what it appends to the channels
\* (the events of the first half, then those of the second)
Extract(events, lo, hi) ==
  IF lo > hi THEN NoChannels
  ELSE IF lo = hi THEN EventItems(events[lo], lo)
  ELSE LET mid == (lo + hi) \div 2
           a == Extract(events, lo, mid)
           b == Extract(events, mid + 1, hi)
       IN  [c \in DOMAIN NoChannels |-> a[c] \o b[c]]

\* q[:n], the first n entries instead of the last
FirstN(q, n) == IF Len(q) <= n THEN q ELSE SubSeq(q, 1, n)

\* q[-n:]
LastN(q, n) == IF Len(q) <= n THEN q ELSE SubSeq(q, Len(q) - n + 1, Len(q))

\* an item of the material list: a section header, an entry of a channel, the
\* separator "\n---\n" after an output block, or the empty string that ends a
\* section; kept is how many of its len characters are in the digest
Piece(kind, chan, item, len) == [kind |-> kind, chan |-> chan, item |-> item, len |-> len, kept |-> len]
NoItem == Item(0, 0, 0)

HeaderLen(chan) ==
  CASE chan = "summaries" -> 12 [] chan = "tool_uses" -> 17 [] chan = "tool_stats" -> 18
    [] chan = "tool_results" -> 39 [] chan = "dialogue" -> 10

\* one section of the material: the header, the last `bound` entries of the
\* channel (each with `grow` more characters, cut to `cap`), each followed by
\* the pieces of `after`, and the pieces of `close`
Section(chan, q, bound, grow, cap, after, close) ==
  LET kept == LastN(q, bound)
      entry(x) == Piece("entry", chan, kept[x], Min(kept[x].len + grow, cap))
      stride == 1 + Len(after)
      entries == [y \in 1..(Len(kept) * stride) |->
                    IF (y - 1) % stride = 0 THEN entry((y - 1) \div stride + 1)
                    ELSE after[(y - 1) % stride]]
  IN  IF q = <<>> THEN <<>>
      ELSE <<Piece("header", chan, NoItem, HeaderLen(chan))>> \o entries \o close

\* the material list of build_session_material
Material(ch) ==
  LET blank == <<Piece("blank", "", NoItem, 0)>>
      sep == <<Piece("sep", "", NoItem, 5)>>
      none == MaxChars + OutputCap
  IN  Section("summaries", ch.summaries, SummaryBound, 2, none, <<>>, blank)
        \o Section("tool_uses", ch.tool_uses, ChannelBound, 0, none, <<>>, blank)
        \o Section("tool_stats", ch.tool_stats, ChannelBound, 0, none, <<>>, blank)
        \o Section("tool_results", ch.tool_results, ChannelBound, 0, OutputCap, sep, <<>>)
        \o Section("dialogue", ch.dialogue, ChannelBound, 0, none, <<>>, <<>>)

\* "\n".join(material).strip(): a closing empty string goes with its newline,
\* a closing separator loses its last newline
Stripped(material) ==
  IF material = <<>> THEN <<>>
  ELSE LET last == material[Len(material)]
           front == SubSeq(material, 1, Len(material) - 1)
       IN  IF last.kind = "blank" THEN front
           ELSE IF last.kind = "sep" THEN Append(front, [last EXCEPT !.len = 4, !.kept = 4])
           ELSE material

RECURSIVE KeepTail(_, _, _, _)
\* blob[-max_chars:] over the pieces lo to hi, from the last backwards, with
\* `remaining` characters of the budget left: piece k takes its characters and
\* the newline that joins it to the piece before.  Yields the pieces kept and
\* what is left of the budget.
KeepTail(pieces, lo, hi, remaining) ==
  IF lo > hi \/ remaining = 0 THEN [kept |-> <<>>, remaining |-> remaining]
  ELSE IF lo = hi
    THEN LET width == pieces[lo].len + (IF lo > 1 THEN 1 ELSE 0)
         IN  IF remaining >= width
               THEN [kept |-> <<pieces[lo]>>, remaining |-> remaining - width]
               ELSE [kept |-> <<[pieces[lo] EXCEPT !.kept = Min(pieces[lo].len, remaining)]>>,
                     remaining |-> 0]
  ELSE LET mid == (lo + hi) \div 2
           b == KeepTail(pieces, mid + 1, hi, remaining)
           a == KeepTail(pieces, lo, mid, b.remaining)
       IN  [kept |-> a.kept \o b.kept, remaining |-> a.remaining]

\* the digest: the pieces of the blob that are in its last max_chars characters
build_session_material(events, max_chars) ==
  LET blob == Stripped(Material(Extract(events, 1, Len(events))))
  IN  KeepTail(blob, 1, Len(blob), max_chars).kept

\* transcripts: nS summary events, nA assistant events with a tool_use and a
\* text, nU user events with a tool_result and a toolUseResult with text; every
\* text of `size` characters
Events(nS, nA, nU, size) ==
  [x \in 1..nS |-> Event("summary", 0, 0, FALSE, "none", size)]
    \o [x \in 1..nA |-> Event("assistant", 1, 0, TRUE, "none", size)]
    \o [x \in 1..nU |-> Event("user", 0, 1, FALSE, "text", size)]

\* events of every type that carry a toolUseResult object, with text in its
\* content or without: a summary, an assistant turn, a user turn with a
\* tool_result, and an event of no known type
WithToolUseResult ==
  <<Event("summary", 0, 0, FALSE, "text", 10), Event("assistant", 0, 0, TRUE, "stats", 10),
    Event("user", 0, 1, FALSE, "text", 10), Event("none", 0, 0, FALSE, "text", 10),
    Event("summary", 0, 0, FALSE, "none", 10)>>

\* short texts, with as many entries as the bound, one more and Extra more;
\* texts longer than a description may be, which overflow the budget; output
\* blocks longer than the cap; events with a toolUseResult; and no event
Transcripts ==
  {Events(nS, nA, nU, 10) :
     nS \in {SummaryBound, SummaryBound + 1, SummaryBound + Extra},
     nA \in {0, ChannelBound + 1}, nU \in {0, ChannelBound + Extra}}
    \cup {Events(SummaryBound + 1, ChannelBound + 1, 0, DescCap + 100),
          Events(SummaryBound + Extra, 0, ChannelBound + 1, DescCap + 100),
          Events(SummaryBound + 1, 1, ChannelBound, OutputCap + 1),
          WithToolUseResult,
          <<>>}

\* no transcript file: tail_lines returns no line
NoTranscript == {<<>>}

(* ------------------------------ the run -------------------------------- *)
AllProcs == {1, 2}
EmptyMap == [x \in {} |-> ""]

IdleRun ==
  [pc |-> "idle", out_text |-> <<>>, doc |-> EmptyDoc("other"), lines |-> <<>>,
   incoming_index |-> NoIndex, existing_index |-> NoIndex, i |-> 0, rid |-> NoStr,
   id_remap |-> EmptyMap, written_ids |-> <<>>, reserved_ids |-> {}, err |-> "",
   events |-> <<>>, material |-> <<>>]

\* start: the index file of the initial store; failed: some run ended in error;
\* regular: every reply so far declared ids of the shape res-NNN only and listed
\* exactly one directory entry per line, with the line's declared id; overlap: a
\* run has started while another was in progress; the other fields describe the
\* run in progress (the one that started last)
NoHistory ==
  [start |-> "none", failed |-> FALSE, regular |-> TRUE, overlap |-> FALSE,
   snapFiles |-> EmptyMap, snapIndex |-> NoFile,
   overwrote |-> FALSE, idxWrites |-> 0, finalIds |-> <<>>]

Init ==
  /\ files = EmptyMap
  /\ indexFile \in {NoFile, CorruptFile}
  /\ dirs = {}
  /\ debugFiles = 0
  /\ run = [p \in AllProcs |-> IdleRun]
  /\ nRuns = 0
  /\ serial = 0
  /\ h = [NoHistory EXCEPT !.start = indexFile.k]

Fail(p, why) == run' = [run EXCEPT ![p].pc = "debug", ![p].err = why]

\* main, up to the collaborator call: the debug directory is created, the
\* transcript is read and the digest built
MainBegin(p, transcripts) ==
  /\ run[p].pc = "idle"
  /\ nRuns < MaxRuns
  /\ nRuns' = nRuns + 1
  /\ dirs' = dirs \cup {"context", "context/debug"}
  /\ \E events \in transcripts :
       run' = [run EXCEPT ![p].pc = "call", ![p].events = events,
                          ![p].material = build_session_material(events, MaxChars)]
  /\ h' = [h EXCEPT !.snapFiles = files, !.snapIndex = indexFile, !.overwrote = FALSE,
                    !.idxWrites = 0, !.finalIds = <<>>,
                    !.overlap = @ \/ \E q \in AllProcs \ {p} : run[q].pc # "idle"]
  /\ UNCHANGED <<files, indexFile, debugFiles, serial>>

\* run_claude_p returns the reply text
EngineReplies(p, replies) ==
  /\ run[p].pc = "call"
  /\ \E r \in replies :
       /\ run' = [run EXCEPT ![p].pc = "parse", ![p].out_text = r.out_text,
                             ![p].doc = r.doc, ![p].lines = r.lines]
       /\ h' = [h EXCEPT !.regular = @ /\ Regular(r)]
  /\ UNCHANGED <<files, indexFile, dirs, debugFiles, nRuns, serial>>

\* run_claude_p raises (credentials, transport or API error, empty content)
EngineFails(p) ==
  /\ run[p].pc = "call"
  /\ Fail(p, "engine")
  /\ UNCHANGED <<files, indexFile, dirs, debugFiles, nRuns, serial, h>>

\* parse_model_output_to_context up to os.makedirs(res_dir)
ParseReply(p) ==
  /\ run[p].pc = "parse"
  /\ LET m == FileBlockSearch(run[p].out_text)
     IN  IF ~m.found THEN Fail(p, "parse") /\ dirs' = dirs
         ELSE IF m.index # <<"doc">> THEN Fail(p, "json") /\ dirs' = dirs
         ELSE /\ run' = [run EXCEPT ![p].pc = "read",
                                    ![p].incoming_index = normalize_index(run[p].doc),
                                    ![p].lines = SplitLines(m.ndjson, run[p].lines)]
              /\ dirs' = dirs \cup {"context", "context/resolutions"}
  /\ UNCHANGED <<files, indexFile, debugFiles, nRuns, serial, h>>

\* step 1: read the existing index
ReadIndex(p) ==
  /\ run[p].pc = "read"
  /\ run' = [run EXCEPT ![p].pc = "line", ![p].existing_index = LoadIndex(indexFile), ![p].i = 1]
  /\ UNCHANGED <<files, indexFile, dirs, debugFiles, nRuns, serial, h>>

\* step 2, one line up to the choice of its id; the loop's exit
NextLine(p) ==
  /\ run[p].pc = "line"
  /\ LET r == run[p]
     IN  IF r.i > Len(r.lines) THEN run' = [run EXCEPT ![p].pc = "remap"]
         ELSE LET obj == r.lines[r.i]
                  rid == obj.id
              IN  IF ~obj.ok THEN Fail(p, "line")
                  ELSE IF rid = NoStr \/ ~StartsWith(rid, "res-") THEN Fail(p, "id")
                  ELSE IF FileName(rid) \in DOMAIN files \/ rid \in r.reserved_ids
                    THEN LET new_rid == allocate_next_res_id(DOMAIN files, r.reserved_ids)
                         IN  run' = [run EXCEPT ![p].pc = "write", ![p].rid = new_rid,
                                       ![p].reserved_ids = @ \cup {new_rid},
                                       ![p].id_remap = (rid :> new_rid) @@ @]
                    ELSE run' = [run EXCEPT ![p].pc = "write", ![p].rid = rid,
                                            ![p].reserved_ids = @ \cup {rid}]
  /\ UNCHANGED <<files, indexFile, dirs, debugFiles, nRuns, serial, h>>

\* the object written without obj["id"] = rid: it keeps the id the line declared
RecordAsDeclared(obj, rid) == [id |-> obj.id, body |-> obj.body]

\* the object that json.dump writes: the line's object, its id set to the final
\* id where that differs from the declared one
RecordOf(obj, rid) == [id |-> rid, body |-> obj.body]

\* step 2, the write of the record under its final id
WriteRecord(p) ==
  /\ run[p].pc = "write"
  /\ LET r == run[p]
         name == FileName(r.rid)
     IN  /\ files' = (name :> RecordOf(r.lines[r.i], r.rid)) @@ files
         /\ run' = [run EXCEPT ![p].pc = "line", ![p].i = @ + 1, ![p].rid = NoStr,
                               ![p].written_ids = Append(@, r.rid)]
         /\ h' = [h EXCEPT !.overwrote = @ \/ name \in DOMAIN files,
                           !.finalIds = Append(@, r.rid)]
         /\ serial' = serial + 1
  /\ UNCHANGED <<indexFile, dirs, debugFiles, nRuns>>

\* step 3: the remap of the incoming directory entries, and the minimal entries
RemapIndex(p) ==
  /\ run[p].pc = "remap"
  /\ run' = [run EXCEPT ![p].pc = "merge",
               ![p].incoming_index = RemapIncoming(@, run[p].id_remap, run[p].written_ids)]
  /\ UNCHANGED <<files, indexFile, dirs, debugFiles, nRuns, serial, h>>

\* steps 4 and 5: merge and write index.json
MergeWrite(p) ==
  /\ run[p].pc = "merge"
  /\ indexFile' = JsonFile(FinalIndex(run[p].existing_index, run[p].incoming_index))
  /\ run' = [run EXCEPT ![p].pc = "debug"]
  /\ h' = [h EXCEPT !.idxWrites = @ + 1]
  /\ UNCHANGED <<files, dirs, debugFiles, nRuns, serial>>

\* main after the try block: the debug file, and the run ends
WriteDebug(p) ==
  /\ run[p].pc = "debug"
  /\ debugFiles' = debugFiles + 1
  /\ run' = [run EXCEPT ![p] = IdleRun]
  /\ h' = [NoHistory EXCEPT !.start = h.start, !.regular = h.regular, !.overlap = h.overlap,
                            !.failed = h.failed \/ run[p].err # ""]
  /\ UNCHANGED <<files, indexFile, dirs, nRuns, serial>>

\* runs one after another, replies varying the resolutions
Next ==
  \/ MainBegin(1, NoTranscript)
  \/ EngineReplies(1, ResolutionReplies(serial))
  \/ EngineFails(1)
  \/ ParseReply(1)
  \/ ReadIndex(1)
  \/ NextLine(1)
  \/ WriteRecord(1)
  \/ RemapIndex(1)
  \/ MergeWrite(1)
  \/ WriteDebug(1)

Spec == Init /\ [][Next]_vars

\* runs one after another, replies varying the index document
NextIdx ==
  \/ MainBegin(1, NoTranscript)
  \/ EngineReplies(1, FieldReplies(serial))
  \/ EngineFails(1)
  \/ ParseReply(1)
  \/ ReadIndex(1)
  \/ NextLine(1)
  \/ WriteRecord(1)
  \/ RemapIndex(1)
  \/ MergeWrite(1)
  \/ WriteDebug(1)

SpecIdx == Init /\ [][NextIdx]_vars

(* ------------------------------ properties ----------------------------- *)
Range(q) == {q[x] : x \in 1..Len(q)}
NoRepeats(q) == \A x, y \in 1..Len(q) : q[x] = q[y] => x = y

\* the directory of the persisted index, and the ids it lists
PersistedEntries ==
  IF indexFile.k = "json" /\ indexFile.doc.k = "dict" /\ indexFile.doc.detail_index.k = "dict"
       /\ indexFile.doc.detail_index.resolutions.k = "list"
    THEN indexFile.doc.detail_index.resolutions.l ELSE <<>>
ListedIds(entries) == [x \in 1..Len(SelectSeq(entries, IsIdEntry)) |-> SelectSeq(entries, IsIdEntry)[x].id]
FileIds == {files[name].id : name \in DOMAIN files}

Idle == \A p \in AllProcs : run[p].pc = "idle"
\* a run has written the index and not yet ended
Succeeded(p) == run[p].pc = "debug" /\ run[p].err = ""

\* C1: after successful runs only, from an empty store, the resolutions directory
\* holds as many record files as the replies had lines (every line of a
\* successful run is written once, so that number is serial), their ids are
\* pairwise distinct, and the persisted directory lists exactly these ids, none
\* twice.  Stated for replies that declare ids of the shape res-NNN and list one
\* directory entry per line.
C1_IdUniqueness ==
  (Idle /\ ~h.failed /\ h.regular /\ h.start = "none") =>
     /\ Cardinality(DOMAIN files) = serial
     /\ Cardinality(FileIds) = serial
     /\ NoRepeats(ListedIds(PersistedEntries))
     /\ Range(ListedIds(PersistedEntries)) = FileIds
     /\ Len(ListedIds(PersistedEntries)) = Len(PersistedEntries)

\* the line at position x of the run's reply collides: its declared id is on disk
\* when the run starts, or was claimed by an earlier line of the reply
Collides(p, x) ==
  \/ FileName(run[p].lines[x].id) \in DOMAIN h.snapFiles
  \/ \E y \in 1..(x - 1) : h.finalIds[y] = run[p].lines[x].id

\* C2: when a run has written the index, every colliding line of the reply was
\* persisted under an id unused until then, and every entry of the incoming
\* directory that describes a line (same descriptive content) carries the id the
\* line was persisted under, whether the line collided or not.
C2_RemapCorrect ==
  \A p \in AllProcs :
    (Succeeded(p) /\ Regular(run[p])) =>
      \A x \in 1..Len(run[p].lines) :
        LET line == run[p].lines[x]
            final == h.finalIds[x]
            items == run[p].incoming_index.detail_index.resolutions.l
        IN  /\ Collides(p, x) =>
                 /\ FileName(final) \notin DOMAIN h.snapFiles
                 /\ \A y \in 1..(x - 1) : h.finalIds[y] # final
            /\ FileName(final) \in DOMAIN files /\ files[FileName(final)].body = line.body
            /\ \A n \in 1..Len(items) : items[n].tag = line.body => items[n].id = final

\* merging D into S once, and once more into the index as read back
MergedOnce(S, D) == FinalIndex(S, D)
MergedTwice(S, D) == FinalIndex(LoadIndex(JsonFile(MergedOnce(S, D))), D)

\* normalized incoming documents: every field document, and every directory for
\* two lines
ProbeDocs ==
  {normalize_index(d) : d \in FieldDocs(1) \cup FieldDocs(2)}
    \cup {normalize_index([BaseDoc(2) EXCEPT !.detail_index = dd]) :
            dd \in Directories(<<Line(ResId(1), "x1"), Line(ResId(2), "x2")>>)
                     \cup Directories(<<Line(ResId(3), "x3"), Line(ResId(3), "x4")>>)}

\* C3 as stated: the merge of a run is idempotent for every previous index,
\* the absent one included.
C3_IdempotentAlways ==
  \A p \in AllProcs :
    run[p].pc = "merge" =>
      MergedTwice(run[p].existing_index, run[p].incoming_index)
        = MergedOnce(run[p].existing_index, run[p].incoming_index)

\* C3, amended: when a previous index exists and decodes, merging a document
\* twice yields the index that merging it once yields: for the merge of every
\* run, and for every probe document merged into every persisted index.
C3_IdempotentOnExisting ==
  /\ \A p \in AllProcs :
       (run[p].pc = "merge" /\ run[p].existing_index.k # "none") =>
         MergedTwice(run[p].existing_index, run[p].incoming_index)
           = MergedOnce(run[p].existing_index, run[p].incoming_index)
  /\ (Idle /\ indexFile.k = "json") =>
       \A D \in ProbeDocs : MergedTwice(LoadIndex(indexFile), D) = MergedOnce(LoadIndex(indexFile), D)

\* a merge into an existing index that changes it, with an incoming document
\* that has a repeated item
C3_Witness ==
  \E p \in AllProcs :
    /\ run[p].pc = "merge" /\ run[p].existing_index.k # "none"
    /\ MergedOnce(run[p].existing_index, run[p].incoming_index) # run[p].existing_index
    /\ ~NoRepeats(run[p].incoming_index.goals.l)

Elems(v) == IF v.k = "list" THEN Range(v.l) ELSE {}
EnvElems(doc, f) == IF doc.environment.k = "dict" THEN Elems(doc.environment[f]) ELSE {}

\* C4: when a run has written the index and an index written by an earlier run
\* existed, every item of the earlier goals, constraints, verified_facts,
\* environment.tools and environment.paths is an item of the same field now.
C4_UnionMonotone ==
  \A p \in AllProcs :
    (Succeeded(p) /\ h.snapIndex.k = "json") =>
      LET before == h.snapIndex.doc
          after == indexFile.doc
      IN  /\ Elems(before.goals) \subseteq Elems(after.goals)
          /\ Elems(before.constraints) \subseteq Elems(after.constraints)
          /\ Elems(before.verified_facts) \subseteq Elems(after.verified_facts)
          /\ EnvElems(before, "tools") \subseteq EnvElems(after, "tools")
          /\ EnvElems(before, "paths") \subseteq EnvElems(after, "paths")

\* a second run whose reply brings other goals and tools than the index held,
\* and omits none of the earlier ones from the result
C4_Witness ==
  \E p \in AllProcs :
    /\ Succeeded(p) /\ h.snapIndex.k = "json"
    /\ Elems(h.snapIndex.doc.goals) # {}
    /\ Elems(run[p].incoming_index.goals) # {}
    /\ Elems(run[p].incoming_index.goals) \cap Elems(h.snapIndex.doc.goals) = {}
    /\ EnvElems(h.snapIndex.doc, "tools") # {}
    /\ EnvElems(indexFile.doc, "tools") # EnvElems(h.snapIndex.doc, "tools")

\* C5: during a run, every record file that existed when the run started is
\* still there with the same content, and no write of the run went to a file
\* that existed when it was written.
C5_RecordsImmutable ==
  (\E p \in AllProcs : run[p].pc # "idle") =>
    /\ \A name \in DOMAIN h.snapFiles : name \in DOMAIN files /\ files[name] = h.snapFiles[name]
    /\ ~h.overwrote

\* a run on a store with records, in which a line collided and was written
\* under a fresh id
C5_Witness ==
  \E p \in AllProcs :
    /\ run[p].pc = "debug"
    /\ DOMAIN h.snapFiles # {}
    /\ \E x \in 1..Len(h.finalIds) :
         /\ FileName(run[p].lines[x].id) \in DOMAIN h.snapFiles
         /\ h.finalIds[x] # run[p].lines[x].id
         /\ FileName(h.finalIds[x]) \in DOMAIN files

\* C6: every id the persisted index lists has a record file.
C6_NoDanglingEntry ==
  \A x \in 1..Len(ListedIds(PersistedEntries)) :
    FileName(ListedIds(PersistedEntries)[x]) \in DOMAIN files

\* C7: no two entries of the persisted directory have the same id.  Stated for
\* replies that declare ids of the shape res-NNN and list one entry per line.
C7_DirectoryUniqueById ==
  h.regular => NoRepeats(ListedIds(PersistedEntries))

\* the reply's index document supplies the field (v is the field's value in it)
Supplies(doc, v) == doc.k = "dict" /\ v.k # "absent"
SuppliesEnv(doc, f) == doc.k = "dict" /\ doc.environment.k = "dict" /\ doc.environment[f].k # "absent"
\* the previous value of environment.os or .runtime; null when there was none
PrevEnv(prev, f) == IF prev.environment.k = "dict" THEN Get(prev.environment[f], NullV) ELSE NullV

\* C8: when a run has merged into a previous index, each of project,
\* current_state, next_actions, environment.os and environment.runtime holds
\* the reply's value where the reply's document supplies the field, and the
\* previous value where it omits it.
C8_LatestWinsOrRetained ==
  \A p \in AllProcs :
    (Succeeded(p) /\ run[p].existing_index.k # "none") =>
      LET prev == run[p].existing_index
          doc == run[p].doc
          now == indexFile.doc
      IN  /\ now.project = IF Supplies(doc, doc.project) THEN doc.project ELSE prev.project
          /\ now.current_state = IF Supplies(doc, doc.current_state) THEN doc.current_state
                                                                    ELSE prev.current_state
          /\ now.next_actions = IF Supplies(doc, doc.next_actions) THEN doc.next_actions
                                                                  ELSE prev.next_actions
          /\ now.environment.os = IF SuppliesEnv(doc, "os") THEN doc.environment.os
                                                            ELSE PrevEnv(prev, "os")
          /\ now.environment.runtime = IF SuppliesEnv(doc, "runtime") THEN doc.environment.runtime
                                                                      ELSE PrevEnv(prev, "runtime")

RECURSIVE NewById(_, _)
\* the entries of items that have an id not in seen, each id once
NewById(items, seen) ==
  IF items = <<>> THEN <<>>
  ELSE IF IsIdEntry(Head(items)) /\ Head(items).id \notin seen
         THEN <<Head(items)>> \o NewById(Tail(items), seen \cup {Head(items).id})
         ELSE NewById(Tail(items), seen)

\* C9: when a run has merged into a previous index, the persisted directory is
\* the previous directory, whole and in its order, followed by the incoming
\* entries whose id is new.  Stated for replies that declare ids of the shape
\* res-NNN and list one entry per line.
C9_PreviousEntriesKept ==
  \A p \in AllProcs :
    (Succeeded(p) /\ run[p].existing_index.k # "none" /\ h.regular) =>
      LET prev == run[p].existing_index.detail_index.resolutions.l
          inc == run[p].incoming_index.detail_index.resolutions.l
      IN  PersistedEntries = prev \o NewById(inc, Range(ListedIds(prev)))

\* the reply holds the index block, closed, directly followed by the resolution
\* block, closed
HasBothBlocks(t) ==
  \E i, j, l \in 1..Len(t) :
    /\ i < j /\ j + 1 < l
    /\ t[i] = "IDX" /\ t[j] = "END" /\ t[j + 1] = "RES" /\ t[l] = "END"

\* the run has received its reply
HasReply(p) == run[p].pc \notin {"idle", "call"} /\ run[p].err # "engine"

\* C10: a run whose reply lacks the two closed blocks goes from the parse to its
\* end with a parse error, and the record files and the index file stay as they
\* were when the run started.
C10_MalformedReplyNoWrite ==
  \A p \in AllProcs :
    (HasReply(p) /\ ~HasBothBlocks(run[p].out_text)) =>
      /\ run[p].pc \in {"parse", "debug"}
      /\ run[p].pc = "debug" => run[p].err = "parse"
      /\ files = h.snapFiles
      /\ indexFile = h.snapIndex
      /\ h.idxWrites = 0

\* a run on a store with a record and an index ended in the parse error, on a
\* reply that lacks the closing marker of the resolution block and has a line
C10_Witness ==
  \E p \in AllProcs :
    /\ run[p].pc = "debug" /\ run[p].err = "parse"
    /\ run[p].out_text = <<"IDX", "doc", "END", "RES", "nd">>
    /\ run[p].lines # <<>>
    /\ DOMAIN files # {} /\ indexFile.k = "json"

(* ------------------------- failures of the line loop -------------------- *)
\* the line does not decode, or has no id of the shape res-NNN
LacksValidId(line) == ~line.ok \/ line.id = NoStr \/ ~IsResNNN(line.id)

\* the run has split the resolution stream of its reply into lines
HasLines(p) ==
  \/ run[p].pc \in {"read", "line", "write", "remap", "merge"}
  \/ run[p].pc = "debug" /\ run[p].err \notin {"engine", "parse", "json"}

\* every id of the reply's lines that has the prefix res- has the shape res-NNN
NoOddIds(p) ==
  \A x \in 1..Len(run[p].lines) :
    StartsWith(run[p].lines[x].id, "res-") => IsResNNN(run[p].lines[x].id)

\* C11: a run whose resolution stream has a line that does not decode or lacks
\* an id of the shape res-NNN never comes to the remap or the merge, ends in
\* the line's error, and the index file stays what it was when the run started.
C11_InvalidLineKeepsIndex ==
  \A p \in AllProcs :
    (HasLines(p) /\ \E x \in 1..Len(run[p].lines) : LacksValidId(run[p].lines[x])) =>
      /\ run[p].pc \notin {"remap", "merge"}
      /\ run[p].pc = "debug" => run[p].err \in {"line", "id"}
      /\ indexFile = h.snapIndex
      /\ h.idxWrites = 0

\* C12: when a run has ended its work on a reply, it has written a record for
\* every line of the reply or for none, and none when a line does not decode or
\* lacks a valid id.  Stated for replies whose ids with the prefix res- all have
\* the shape res-NNN.
C12_AllOrNothing ==
  \A p \in AllProcs :
    (HasLines(p) /\ run[p].pc = "debug" /\ NoOddIds(p)) =>
      /\ Len(h.finalIds) \in {0, Len(run[p].lines)}
      /\ (\E x \in 1..Len(run[p].lines) : LacksValidId(run[p].lines[x])) => files = h.snapFiles

\* C13: no step of a run before the collaborator's answer or failure (the start
\* of main, the failing call) changes the record files, the index file or the
\* directories of the store.
C13_NothingBeforeCallEnds ==
  [][\A p \in AllProcs :
       (run[p].pc \in {"idle", "call"} /\ run'[p] # run[p]) =>
         /\ files' = files
         /\ indexFile' = indexFile
         /\ dirs' = dirs]_vars

\* C14: a run never chooses a final id for a line whose id is absent or not of
\* the shape res-NNN, and every record file has an id of that shape.
C14_IdShape ==
  /\ \A p \in AllProcs : run[p].pc = "write" => ~LacksValidId(run[p].lines[run[p].i])
  /\ \A name \in DOMAIN files : IsResNNN(files[name].id)

(* ------------------------------ allocation ------------------------------ *)
\* the line at position i of the run's reply collides where the code tests it
CollidesNow(p) ==
  LET rid == run[p].lines[run[p].i].id
  IN  FileName(rid) \in DOMAIN files \/ rid \in run[p].reserved_ids

\* numbers whose id is neither a record file on disk nor reserved by the run
FreeNumbers(p) ==
  {n \in 1..(Cardinality(DOMAIN files) + Cardinality(run[p].reserved_ids) + 1) :
     FileName(ResId(n)) \notin DOMAIN files /\ ResId(n) \notin run[p].reserved_ids}

\* C17: every step in which a run asks for a fresh id (its line collides)
\* chooses the id of the smallest number >= 1 that is neither on disk nor
\* reserved, whatever the collided id, and adds it to the reservation set.
C17_LowestUnusedId ==
  [][\A p \in AllProcs :
       (run[p].pc = "line" /\ run'[p].pc = "write" /\ CollidesNow(p)) =>
         \E n \in FreeNumbers(p) :
           /\ \A m \in FreeNumbers(p) : n <= m
           /\ run'[p].rid = ResId(n)
           /\ run'[p].reserved_ids = run[p].reserved_ids \cup {ResId(n)}]_vars

\* a line that declares res-002 has collided and goes to res-001, which was free
C17_Witness ==
  \E p \in AllProcs :
    /\ run[p].pc = "write"
    /\ run[p].lines[run[p].i].id = ResId(2)
    /\ run[p].rid = ResId(1)
    /\ FileName(ResId(2)) \in DOMAIN files

\* C18: the final ids under which a run has written the lines of its reply are
\* pairwise distinct.
C18_FinalIdsDistinct ==
  \A p \in AllProcs : run[p].pc # "idle" => NoRepeats(h.finalIds)

\* a run has written a line under a fresh id, and a later line of its reply
\* that declared that very id under yet another id
C18_Witness ==
  \E p \in AllProcs :
    /\ run[p].pc = "debug" /\ Len(h.finalIds) >= 2
    /\ \E x, y \in 1..Len(h.finalIds) :
         /\ x < y
         /\ h.finalIds[x] # run[p].lines[x].id
         /\ run[p].lines[y].id = h.finalIds[x]
         /\ h.finalIds[y] # h.finalIds[x]

(* --------------------- minimal entries, normalization ------------------- *)
\* the reply's index document supplies no directory entries: the document, its
\* detail_index or the list is missing or of another type, or the list is empty
NoEntriesSupplied(doc) ==
  \/ doc.k # "dict"
  \/ doc.detail_index.k # "dict"
  \/ doc.detail_index.resolutions.k # "list"
  \/ doc.detail_index.resolutions.l = <<>>

\* C19: when the reply's document supplies no directory entries and the run
\* has written records, the incoming index that goes into the merge lists one
\* entry per written record, with its final id and empty descriptive fields, in
\* the order of the writes.
C19_MinimalEntries ==
  \A p \in AllProcs :
    (run[p].pc = "merge" /\ NoEntriesSupplied(run[p].doc) /\ h.finalIds # <<>>) =>
      run[p].incoming_index.detail_index.resolutions
        = List([x \in 1..Len(h.finalIds) |-> Entry(h.finalIds[x], "")])

\* a reply without a directory whose two lines were written, one of them under
\* a fresh id, and the merge is about to run
C19_Witness ==
  \E p \in AllProcs :
    /\ run[p].pc = "merge" /\ NoEntriesSupplied(run[p].doc)
    /\ Len(h.finalIds) = 2
    /\ h.finalIds[2] # run[p].lines[2].id

\* the value is a list; the environment has the canonical shape
IsList(v) == v.k = "list"
CanonicalEnv(env) ==
  /\ env.k = "dict"
  /\ env.os.k # "absent" /\ env.runtime.k # "absent"
  /\ IsList(env.tools) /\ IsList(env.paths)

\* C20: the normalized document of every decoded reply has lists for goals,
\* constraints, verified_facts, next_actions and detail_index.resolutions (the
\* empty list where the reply's value is missing or no list), and objects of
\* the canonical shape for environment and detail_index.
C20_NormalizedTypes ==
  \A p \in AllProcs :
    run[p].pc = "read" =>
      LET doc == IF run[p].doc.k = "dict" THEN run[p].doc ELSE EmptyDoc("dict")
          out == run[p].incoming_index
      IN  /\ out.k = "dict"
          /\ out.goals = IF IsList(doc.goals) THEN doc.goals ELSE List(<<>>)
          /\ out.constraints = IF IsList(doc.constraints) THEN doc.constraints ELSE List(<<>>)
          /\ out.verified_facts = IF IsList(doc.verified_facts) THEN doc.verified_facts ELSE List(<<>>)
          /\ out.next_actions = IF IsList(doc.next_actions) THEN doc.next_actions ELSE List(<<>>)
          /\ out.detail_index.k = "dict" /\ IsList(out.detail_index.resolutions)
          /\ NoEntriesSupplied(doc) => out.detail_index.resolutions = List(<<>>)
          /\ CanonicalEnv(out.environment)

(* -------------------------- overlapping runs ---------------------------- *)
\* the replies of process p in the run that started as number n: the document
\* BaseDoc(p), without lines, or with one line that declares res-001 and its
\* directory entry
ConcReplies(p, n) ==
  LET line == Line(ResId(1), Body(10 * n + p))
  IN  {Reply(GoodFrame, BaseDoc(p), <<>>),
       Reply(GoodFrame, [BaseDoc(p) EXCEPT !.detail_index.resolutions =
                                            List(<<Entry(line.id, line.body)>>)], <<line>>)}

\* two processes run main on the same store, with no lock: the steps of
\* parse_model_output_to_context interleave at every file operation
NextConc ==
  \/ MainBegin(1, NoTranscript)
  \/ MainBegin(2, NoTranscript)
  \/ EngineReplies(1, ConcReplies(1, nRuns))
  \/ EngineReplies(2, ConcReplies(2, nRuns))
  \/ EngineFails(1)
  \/ EngineFails(2)
  \/ ParseReply(1)
  \/ ParseReply(2)
  \/ ReadIndex(1)
  \/ ReadIndex(2)
  \/ NextLine(1)
  \/ NextLine(2)
  \/ WriteRecord(1)
  \/ WriteRecord(2)
  \/ RemapIndex(1)
  \/ RemapIndex(2)
  \/ MergeWrite(1)
  \/ MergeWrite(2)
  \/ WriteDebug(1)
  \/ WriteDebug(2)

SpecConc == Init /\ [][NextConc]_vars

\* the directory ids and the items of the union-merged fields of an index document
IndexItems(doc) ==
  [ids |-> IF doc.k = "dict" /\ doc.detail_index.k = "dict" /\ IsList(doc.detail_index.resolutions)
             THEN Range(ListedIds(doc.detail_index.resolutions.l)) ELSE {},
   goals |-> Elems(doc.goals), constraints |-> Elems(doc.constraints),
   verified_facts |-> Elems(doc.verified_facts),
   tools |-> EnvElems(doc, "tools"), paths |-> EnvElems(doc, "paths")]

\* every item of a is an item of b
ItemsKept(a, b) == \A f \in DOMAIN a : a[f] \subseteq b[f]

\* (a) a lost update: both runs have written the index, and an item that run q
\* put into it is not in the index file
LostUpdate ==
  /\ \A p \in AllProcs : Succeeded(p)
  /\ \E q \in AllProcs : ~ItemsKept(IndexItems(run[q].incoming_index), IndexItems(indexFile.doc))

\* (b) both runs have written a record under the same id
SameIdTwice ==
  \E x \in Range(run[1].written_ids) : x \in Range(run[2].written_ids)

\* C15: overlap is what it takes.  As long as no run has started while another
\* was in progress, a run that has written the index has kept every directory
\* id and every union-merged item the index held when the run started, and no
\* record write has gone to an existing file; with overlapping runs both the
\* lost update and the record written twice under one id are reached
\* (C15_Witness).
C15_LossNeedsOverlap ==
  ~h.overlap =>
    /\ ~h.overwrote
    /\ \A p \in AllProcs :
         (Succeeded(p) /\ h.snapIndex.k = "json") =>
           ItemsKept(IndexItems(h.snapIndex.doc), IndexItems(indexFile.doc))

\* two overlapping runs have ended with a lost update and with one record
\* written over the other
C15_Witness == h.overlap /\ LostUpdate /\ SameIdTwice /\ h.overwrote

(* ------------------------------ the digest ------------------------------ *)
\* runs one after another, transcripts varying the number of entries per channel
NextDigest ==
  \/ MainBegin(1, Transcripts)
  \/ EngineReplies(1, ConcReplies(1, nRuns))
  \/ EngineFails(1)
  \/ ParseReply(1)
  \/ ReadIndex(1)
  \/ NextLine(1)
  \/ WriteRecord(1)
  \/ RemapIndex(1)
  \/ MergeWrite(1)
  \/ WriteDebug(1)

SpecDigest == Init /\ [][NextDigest]_vars

ChannelNames == DOMAIN NoChannels
BoundOf(chan) == IF chan = "summaries" THEN SummaryBound ELSE ChannelBound

\* the entries extracted from the run's transcript, per channel
Extracted(p) == Extract(run[p].events, 1, Len(run[p].events))

\* the entries of the channel that are whole in the run's digest, in its order
InDigest(p, chan) ==
  LET whole == SelectSeq(run[p].material,
                         LAMBDA piece : piece.kind = "entry" /\ piece.chan = chan
                                          /\ piece.kept = piece.len)
  IN  [x \in 1..Len(whole) |-> whole[x].item]

\* the n most recent entries of q, oldest first (q has more than n)
Newest(q, n) == [x \in 1..n |-> q[Len(q) - n + x]]

RECURSIVE SumLen(_, _, _)
SumLen(pieces, lo, hi) ==
  IF lo > hi THEN 0
  ELSE IF lo = hi THEN pieces[lo].len
  ELSE SumLen(pieces, lo, (lo + hi) \div 2) + SumLen(pieces, (lo + hi) \div 2 + 1, hi)
\* the length of the blob before it is cut to the budget
BlobLen(p) ==
  LET blob == Stripped(Material(Extracted(p)))
  IN  IF blob = <<>> THEN 0 ELSE SumLen(blob, 1, Len(blob)) + Len(blob) - 1

\* C16 as stated: when a run has built its digest, for every channel from which more entries than its bound
\* were extracted, the entries in the digest are the last bound-many extracted
\* entries, in their order.
C16_LastEntriesInDigest ==
  \A p \in AllProcs :
    run[p].pc = "call" =>
      \A chan \in ChannelNames :
        Len(Extracted(p)[chan]) > BoundOf(chan) =>
          InDigest(p, chan) = Newest(Extracted(p)[chan], BoundOf(chan))

\* C16, amended: when a run has built its digest, for every channel from which more entries than its bound were
\* extracted, the entries in the digest are the most recent of the last
\* bound-many extracted entries, in their order (an entry left out is older
\* than every entry in the digest), and they are all of the last bound-many
\* when the blob is within the budget of MaxChars characters.
C16_LastEntriesWithinBudget ==
  \A p \in AllProcs :
    run[p].pc = "call" =>
      \A chan \in ChannelNames :
        Len(Extracted(p)[chan]) > BoundOf(chan) =>
          LET newest == Newest(Extracted(p)[chan], BoundOf(chan))
              got == InDigest(p, chan)
          IN  /\ Len(got) <= Len(newest)
              /\ got = SubSeq(newest, Len(newest) - Len(got) + 1, Len(newest))
              /\ BlobLen(p) <= MaxChars => got = newest

\* a digest within the budget, built from more summaries and more dialogue
\* turns than the bounds, that holds the last 80 summaries and 120 turns
C16_Witness ==
  \E p \in AllProcs :
    /\ run[p].pc = "call"
    /\ Len(Extracted(p).summaries) > SummaryBound + 1
    /\ Len(Extracted(p).dialogue) > ChannelBound + 1
    /\ BlobLen(p) <= MaxChars
    /\ Len(InDigest(p, "summaries")) = SummaryBound
    /\ Len(InDigest(p, "dialogue")) = ChannelBound
    /\ InDigest(p, "summaries")[1].ev = Len(Extracted(p).summaries) - SummaryBound + 1


(* ------------------------ the order of the writes ----------------------- *)
\* the step writes index.json; the step writes a record file
IndexWritten == indexFile' # indexFile \/ h'.idxWrites > h.idxWrites
RecordWritten == serial' # serial \/ files' # files

\* the directory entries of the run's incoming index are those of the reply's
\* document with every id that is a key of id_remap replaced by its new id
RemapApplied(p) ==
  LET before == normalize_index(run[p].doc).detail_index.resolutions.l
      after == run[p].incoming_index.detail_index.resolutions.l
  IN  before # <<>> =>
        /\ Len(after) = Len(before)
        /\ \A x \in 1..Len(before) :
             (IsIdEntry(before[x]) /\ before[x].id \in DOMAIN run[p].id_remap)
               => after[x].id = run[p].id_remap[before[x].id]

\* C21: in every run index.json is written at most once, and the step that
\* writes it is taken when every line of the reply has been written as a record
\* file that is on disk and the id remap has been applied to the incoming
\* directory entries; no record file is written once the run has written
\* index.json.
C21_IndexWrittenLast ==
  [][/\ IndexWritten =>
          /\ h.idxWrites = 0
          /\ \E p \in AllProcs :
               /\ run[p].pc = "merge" /\ run'[p].pc = "debug"
               /\ Len(run[p].written_ids) = Len(run[p].lines)
               /\ \A x \in 1..Len(run[p].lines) :
                    run[p].lines[x].ok /\ FileName(run[p].written_ids[x]) \in DOMAIN files
               /\ RemapApplied(p)
     /\ RecordWritten => h.idxWrites = 0 /\ indexFile = h.snapIndex]_vars

\* a run has written index.json once, after two records of which one was
\* remapped and listed in the reply's directory
C21_Witness ==
  \E p \in AllProcs :
    /\ Succeeded(p) /\ h.idxWrites = 1
    /\ Len(run[p].written_ids) >= 2
    /\ run[p].id_remap # EmptyMap
    /\ \E e \in Range(normalize_index(run[p].doc).detail_index.resolutions.l) :
         IsIdEntry(e) /\ e.id \in DOMAIN run[p].id_remap


(* ----------------------- the id inside a record file -------------------- *)
\* C22: every record file holds, in its id field, the id it is filed under:
\* the file named X.json has id X, whether the run kept the declared id or
\* remapped it.
C22_RecordIdIsFileId ==
  \A name \in DOMAIN files : FileName(files[name].id) = name

\* a run has written one record under its declared id and one under a new id,
\* and both files hold the id they are filed under
C22_Witness ==
  \E p \in AllProcs :
    /\ \E old \in DOMAIN run[p].id_remap :
         /\ run[p].id_remap[old] \in Range(run[p].written_ids)
         /\ FileName(run[p].id_remap[old]) \in DOMAIN files
         /\ files[FileName(run[p].id_remap[old])].id = run[p].id_remap[old]
    /\ \E x \in 1..Len(run[p].written_ids) :
         /\ run[p].written_ids[x] = run[p].lines[x].id
         /\ files[FileName(run[p].written_ids[x])].id = run[p].lines[x].id


(* -------------------- the top-level toolUseResult object ---------------- *)
\* the entries that event number x contributed to the channel
FromEvent(q, x) == SelectSeq(q, LAMBDA item : item.ev = x)

\* C23: every event that carries a top-level toolUseResult object, whatever its
\* type, contributes one line to the statistics channel and, when the object's
\* content holds text, that text to the outputs channel (after the outputs of
\* the event's own tool_result items).
C23_ToolUseResultContributes ==
  \A p \in AllProcs :
    run[p].pc = "call" =>
      \A x \in 1..Len(run[p].events) :
        LET e == run[p].events[x]
        IN  e.tur # "none" =>
              /\ Len(FromEvent(Extracted(p).tool_stats, x)) = 1
              /\ e.tur = "text" =>
                   \E item \in Range(FromEvent(Extracted(p).tool_results, x)) :
                     item.len = e.size /\ item.n > (IF e.type = "user" THEN e.results ELSE 0)

====
